---------------------------- MODULE Spec2Model ----------------------------
(***************************************************************************)
(* A model of myo/quaternion.py: the Quaternion value type, its arithmetic,*)
(* its rotation helpers and Quaternion.rotation_of.                        *)
(*                                                                         *)
(* Python values are records carrying their class in the field "type".     *)
(* Quaternion instances live in `heap` (the index is the object identity), *)
(* so that "returns a new instance" and "leaves the receiver unchanged"    *)
(* are statements about the heap.  Numbers are integers: float() of an     *)
(* integer-valued number keeps its value and the sums and products below   *)
(* are exact in double precision at the sizes explored.  The results of    *)
(* math.sqrt, math.atan2, math.asin and of a division by a square root are *)
(* kept as terms [fn |-> ..., ...] over their exact arguments.             *)
(***************************************************************************)
EXTENDS Integers, Sequences, FiniteSets, TLC

VARIABLES
  heap,   \* the Quaternion instances constructed so far, by identity
  made,   \* made[k]: the call that constructed heap[k]
  call,   \* the call executed last
  ret     \* its outcome: a returned value or a raised exception

vars == <<heap, made, call, ret>>

---------------------------------------------------------------------------
(* Bounds of the exploration.                                              *)

MaxComp == 1      \* quaternion components are drawn from -MaxComp..MaxComp
MaxTri == 1       \* components of the operands of a triple product: 0..MaxTri
MaxVec == 1       \* vector components are drawn from -MaxVec..MaxVec
MaxIndex == 6     \* indices are drawn from -MaxIndex..MaxIndex
MaxHeap == 3      \* instances a session keeps

---------------------------------------------------------------------------
(* Outcomes of a call.                                                     *)

Return(v) == [kind |-> "return", val |-> v]
Raise(e) == [kind |-> "raise", exc |-> e]

(* Python values other than Quaternion instances.                          *)
Int_(n) == [type |-> "int", val |-> n]
Float(v) == [type |-> "float", val |-> v]
None == [type |-> "NoneType"]
Tuple(items) == [type |-> "tuple", items |-> items]

---------------------------------------------------------------------------
(* class Quaternion                                                        *)

\* __init__: the four fields of __slots__, each the float of its argument.
Quaternion(x, y, z, w) ==
  [type |-> "Quaternion", x |-> x, y |-> y, z |-> z, w |-> w]

isinstance(v, cls) == v.type = cls

\* Slips of __mul__: a sign of the x component, the sign of the x*x term of
\* w, and the operand check left to the attribute lookup.
mul_x_sign(self, rhs) ==
  IF ~isinstance(rhs, "Quaternion")
  THEN Raise("TypeError")
  ELSE Return(Quaternion(
         self.w * rhs.x + self.x * rhs.w + self.y * rhs.z + self.z * rhs.y,
         self.w * rhs.y - self.x * rhs.z + self.y * rhs.w + self.z * rhs.x,
         self.w * rhs.z + self.x * rhs.y - self.y * rhs.x + self.z * rhs.w,
         self.w * rhs.w - self.x * rhs.x - self.y * rhs.y - self.z * rhs.z))

mul_w_sign(self, rhs) ==
  IF ~isinstance(rhs, "Quaternion")
  THEN Raise("TypeError")
  ELSE Return(Quaternion(
         self.w * rhs.x + self.x * rhs.w + self.y * rhs.z - self.z * rhs.y,
         self.w * rhs.y - self.x * rhs.z + self.y * rhs.w + self.z * rhs.x,
         self.w * rhs.z + self.x * rhs.y - self.y * rhs.x + self.z * rhs.w,
         self.w * rhs.w + self.x * rhs.x - self.y * rhs.y - self.z * rhs.z))

mul_unchecked(self, rhs) ==
  IF ~isinstance(rhs, "Quaternion")
  THEN Raise("AttributeError")
  ELSE Return(Quaternion(
         self.w * rhs.x + self.x * rhs.w + self.y * rhs.z - self.z * rhs.y,
         self.w * rhs.y - self.x * rhs.z + self.y * rhs.w + self.z * rhs.x,
         self.w * rhs.z + self.x * rhs.y - self.y * rhs.x + self.z * rhs.w,
         self.w * rhs.w - self.x * rhs.x - self.y * rhs.y - self.z * rhs.z))

\* __mul__: the Hamilton product, or TypeError when rhs is no Quaternion.
__mul__(self, rhs) ==
  IF ~isinstance(rhs, "Quaternion")
  THEN Raise("TypeError")
  ELSE Return(Quaternion(
         self.w * rhs.x + self.x * rhs.w + self.y * rhs.z - self.z * rhs.y,
         self.w * rhs.y - self.x * rhs.z + self.y * rhs.w + self.z * rhs.x,
         self.w * rhs.z + self.x * rhs.y - self.y * rhs.x + self.z * rhs.w,
         self.w * rhs.w - self.x * rhs.x - self.y * rhs.y - self.z * rhs.z))

\* A slip of __invert__: w negated with the vector part.
invert_negates_w(self) == Return(Quaternion(-self.x, -self.y, -self.z, -self.w))

\* __invert__ (alias conjugate)
__invert__(self) == Return(Quaternion(-self.x, -self.y, -self.z, self.w))

\* __iter__: an iterator over the tuple (x, y, z, w), kept as what it yields.
__iter__(self) == Return(Tuple(<<self.x, self.y, self.z, self.w>>))

\* t[index] of a Python tuple: positions 0..len-1, negative indices count
\* from the end, anything else that is an int is out of range.
tuple_getitem(t, index) ==
  IF index.type # "int" THEN Raise("TypeError")
  ELSE IF 0 <= index.val /\ index.val < Len(t) THEN Return(Float(t[index.val + 1]))
  ELSE IF -Len(t) <= index.val /\ index.val < 0
       THEN Return(Float(t[Len(t) + index.val + 1]))
  ELSE Raise("IndexError")

\* A slip of __getitem__: the scalar part first.
getitem_w_first(self, index) ==
  tuple_getitem(<<self.w, self.x, self.y, self.z>>, index)

\* __getitem__
__getitem__(self, index) ==
  tuple_getitem(<<self.x, self.y, self.z, self.w>>, index)

\* copy
copy(self) == Return(Quaternion(self.x, self.y, self.z, self.w))

\* math.sqrt(*args): one argument exactly, and not a negative one.
math_sqrt(args) ==
  IF Len(args) # 1 THEN Raise("TypeError")
  ELSE IF args[1] < 0 THEN Raise("ValueError")
  ELSE Return([fn |-> "sqrt", arg |-> args[1]])

\* magnitude
magnitude(self) ==
  LET r == math_sqrt(<<self.x * self.x + self.y * self.y
                       + self.z * self.z + self.w * self.w>>)
  IN  IF r.kind = "raise" THEN r ELSE Return(Float(r.val))

\* a / b for b a square root: ZeroDivisionError when b is 0.0.
truediv(a, b) ==
  IF b.arg = 0 THEN Raise("ZeroDivisionError")
  ELSE Return([fn |-> "div", num |-> a, den |-> b])

\* normalized
normalized(self) ==
  LET m == magnitude(self).val.val
      x == truediv(self.x, m)
      y == truediv(self.y, m)
      z == truediv(self.z, m)
      w == truediv(self.w, m)
  IN  IF x.kind = "raise" THEN x
      ELSE Return(Quaternion(x.val, y.val, z.val, w.val))

---------------------------------------------------------------------------
(* The vector class of myo/vector.py and the vector classes of callers:    *)
(* three components, a constructor taking them in the order x, y, z, dot   *)
(* and cross.                                                              *)

Construct3(cls, x, y, z) == [type |-> cls, x |-> x, y |-> y, z |-> z]
Vector(x, y, z) == Construct3("Vector", x, y, z)
Vector_dot(a, b) == a.x * b.x + a.y * b.y + a.z * b.z
Vector_cross(a, b) ==
  Vector(a.y * b.z - a.z * b.y, a.z * b.x - a.x * b.z, a.x * b.y - a.y * b.x)

\* rotate: self * Quaternion(vec.x, vec.y, vec.z, 0) * ~self, rebuilt as a
\* value of the class of vec.
rotate(self, vec) ==
  LET qv == __mul__(self, Quaternion(vec.x, vec.y, vec.z, 0)).val
      qvec == __mul__(qv, __invert__(self).val).val
  IN  Return(Construct3(vec.type, qvec.x, qvec.y, qvec.z))

\* from_axis_angle: reads nothing of self.
from_axis_angle(self, axis, angle) ==
  LET half == [fn |-> "div", num |-> angle.val, den |-> 2]
      sincomp == [fn |-> "sin", arg |-> half]
  IN  Return(Quaternion([fn |-> "mul", a |-> axis.x, b |-> sincomp],
                        [fn |-> "mul", a |-> axis.y, b |-> sincomp],
                        [fn |-> "mul", a |-> axis.z, b |-> sincomp],
                        [fn |-> "cos", arg |-> half]))

\* roll
roll(self) ==
  Return(Float([fn |-> "atan2",
                y |-> 2 * (self.w * self.x + self.y * self.z),
                x |-> 1 - 2 * (self.x * self.x + self.y * self.y)]))

max(a, b) == IF a >= b THEN a ELSE b
min(a, b) == IF a <= b THEN a ELSE b

\* pitch
pitch(self) ==
  LET c == 2 * (self.w * self.y - self.z * self.x)
  IN  Return(Float([fn |-> "asin", arg |-> max(-1, min(1, c))]))

\* yaw
yaw(self) ==
  Return(Float([fn |-> "atan2",
                y |-> 2 * (self.w * self.z + self.x * self.y),
                x |-> 1 - 2 * (self.y * self.y + self.z * self.z)]))

\* euler (alias rpy)
euler(self) ==
  Return(Vector(roll(self).val.val, pitch(self).val.val, yaw(self).val.val))

\* A slip of identity: the scalar part first.
identity_w_first == Return(Quaternion(1, 0, 0, 0))

\* identity
identity == Return(Quaternion(0, 0, 0, 1))

\* rotation_of with the square root taken of the product of the two squared
\* magnitudes, and the antiparallel branch left as it is.
rotation_of_sqrt_of_product(source0, dest0) ==
  LET source == Vector(source0.x, source0.y, source0.z)
      dest == Vector(dest0.x, dest0.y, dest0.z)
      cross == Vector_cross(source, dest)
      cos_theta == Vector_dot(source, dest)
      kr == math_sqrt(<<Vector_dot(source, source) * Vector_dot(dest, dest)>>)
  IN  IF cos_theta >= 1 THEN identity
      ELSE IF kr.kind = "raise" THEN kr
      ELSE IF kr.val.arg <= 0 THEN identity
      ELSE IF cos_theta < 0 /\ cos_theta * cos_theta >= kr.val.arg
           THEN Raise("NameError")
      ELSE Return(Quaternion(cross.x, cross.y, cross.z,
                             [fn |-> "add", a |-> kr.val, b |-> cos_theta]))

\* rotation_of.  math.sqrt is called with two arguments.  Past it, k is the
\* square root of its argument: k <= 0.0 is k.arg <= 0, and for k > 0
\* cos_theta / k <= -1 is cos_theta < 0 /\ cos_theta^2 >= k.arg.  The
\* antiparallel branch reads the name x_ais, which nothing binds.
rotation_of(source0, dest0) ==
  LET source == Vector(source0.x, source0.y, source0.z)
      dest == Vector(dest0.x, dest0.y, dest0.z)
      cross == Vector_cross(source, dest)
      cos_theta == Vector_dot(source, dest)
      kr == math_sqrt(<<Vector_dot(source, source), Vector_dot(dest, dest)>>)
  IN  IF cos_theta >= 1 THEN identity
      ELSE IF kr.kind = "raise" THEN kr
      ELSE IF kr.val.arg <= 0 THEN identity
      ELSE IF cos_theta < 0 /\ cos_theta * cos_theta >= kr.val.arg
           THEN Raise("NameError")
      ELSE Return(Quaternion(cross.x, cross.y, cross.z,
                             [fn |-> "add", a |-> kr.val, b |-> cos_theta]))

---------------------------------------------------------------------------
(* Calls: a method runs on the instance heap[self]; a Quaternion it        *)
(* returns is a newly constructed instance, appended to the heap.  An      *)
(* argument is a reference to an instance or another Python value.         *)

Ref(k) == [type |-> "ref", ref |-> k]
Arg(a) == IF a.type = "ref" THEN heap[a.ref] ELSE a

Call(op, self, args) == [op |-> op, self |-> self, args |-> args]

\* The effect of a call whose body evaluated to the outcome `out`.
Finish(c, out) ==
  /\ call' = c
  /\ IF out.kind = "return" /\ out.val.type = "Quaternion"
     THEN /\ heap' = Append(heap, out.val)
          /\ made' = Append(made, c)
          /\ ret' = Return(Ref(Len(heap) + 1))
     ELSE /\ ret' = out
          /\ UNCHANGED <<heap, made>>

\* Quaternion(x, y, z, w)
New(q) == Finish(Call("__init__", 0, <<q.x, q.y, q.z, q.w>>), Return(q))

\* heap[self] * rhs
Mul(self, rhs) ==
  Finish(Call("__mul__", self, <<rhs>>), __mul__(heap[self], Arg(rhs)))

\* A slip of the conjugate: the receiver negated in place and returned.
InvertInPlace(self) ==
  /\ call' = Call("__invert__", self, << >>)
  /\ heap' = [heap EXCEPT ![self] = __invert__(heap[self]).val]
  /\ ret' = Return(Ref(self))
  /\ UNCHANGED made

\* ~heap[self], heap[self].conjugate()
Invert(self) == Finish(Call("__invert__", self, << >>), __invert__(heap[self]))

\* iter(heap[self])
Iter(self) == Finish(Call("__iter__", self, << >>), __iter__(heap[self]))

\* heap[self][index]
GetItem(self, index) ==
  Finish(Call("__getitem__", self, <<index>>), __getitem__(heap[self], index))

\* heap[self].copy()
Copy(self) == Finish(Call("copy", self, << >>), copy(heap[self]))

\* heap[self].magnitude()
Magnitude(self) == Finish(Call("magnitude", self, << >>), magnitude(heap[self]))

\* heap[self].normalized()
Normalized(self) ==
  Finish(Call("normalized", self, << >>), normalized(heap[self]))

\* heap[self].rotate(vec)
Rotate(self, vec) == Finish(Call("rotate", self, <<vec>>), rotate(heap[self], vec))

\* heap[self].roll, .pitch, .yaw, .euler
Roll(self) == Finish(Call("roll", self, << >>), roll(heap[self]))
Pitch(self) == Finish(Call("pitch", self, << >>), pitch(heap[self]))
Yaw(self) == Finish(Call("yaw", self, << >>), yaw(heap[self]))
Euler(self) == Finish(Call("euler", self, << >>), euler(heap[self]))

\* heap[self].from_axis_angle(axis, angle)
FromAxisAngle(self, axis, angle) ==
  Finish(Call("from_axis_angle", self, <<axis, angle>>),
         from_axis_angle(heap[self], axis, angle))

\* Quaternion.identity()
Identity == Finish(Call("identity", 0, << >>), identity)

\* Quaternion.rotation_of(source, dest)
RotationOf(source, dest) ==
  Finish(Call("rotation_of", 0, <<source, dest>>), rotation_of(source, dest))

---------------------------------------------------------------------------
(* Input sets.                                                             *)

Comp == -MaxComp..MaxComp
QuatIn == {Quaternion(x, y, z, w) : x \in Comp, y \in Comp, z \in Comp, w \in Comp}
TriComp == 0..MaxTri
TriIn == {Quaternion(x, y, z, w) :
            x \in TriComp, y \in TriComp, z \in TriComp, w \in TriComp}
VecComp == -MaxVec..MaxVec
VecTypes == {"Vector", "Vec3"}
VecIn == {Construct3(t, x, y, z) :
            t \in VecTypes, x \in VecComp, y \in VecComp, z \in VecComp}
PlainVecIn == {v \in VecIn : v.type = "Vector"}
IndexIn == {Int_(i) : i \in -MaxIndex..MaxIndex} \cup {None}

\* What a session constructs, multiplies by and rotates.
Samples ==
  {Quaternion(0, 0, 0, 0), Quaternion(1, 0, 0, 0), Quaternion(1, -1, 0, 2)}
NonQuaternions == {Int_(2), None, Vector(1, 0, 0), Tuple(<<0, 0, 0, 1>>)}
SessionVecs == {Vector(1, 0, 0), Construct3("Vec3", 0, 1, -1)}
SessionAngles == {Float(0), Float(1)}

\* The instances whose fields are integers (all but the results of
\* normalized and from_axis_angle, whose fields are terms).
Exact == {k \in DOMAIN heap : made[k].op \notin {"normalized", "from_axis_angle"}}

NoCall == Call("", 0, << >>)
NoRet == Return(None)
Made(q) == Call("__init__", 0, <<q.x, q.y, q.z, q.w>>)

---------------------------------------------------------------------------
(* Spec: a session that constructs quaternions and calls their methods.    *)

Init ==
  /\ heap = << >>
  /\ made = << >>
  /\ call = NoCall
  /\ ret = NoRet

Room == Len(heap) < MaxHeap

\* A call reads the heap and its arguments only, never the outcome of the
\* call before it: the calls are explored from the states a call returned
\* an instance in (and from the initial state), which reaches every state
\* a longer sequence of calls reaches.
Ready == ret.kind = "return" /\ ret.val.type \in {"ref", "NoneType"}

Next ==
  \/ Ready /\ Room /\ \E q \in Samples : New(q)
  \/ Ready /\ Room /\ Identity
  \/ Ready /\ Room /\ \E k \in Exact, j \in Exact : Mul(k, Ref(j))
  \/ Ready /\ \E k \in Exact, v \in NonQuaternions : Mul(k, v)
  \/ Ready /\ Room /\ \E k \in Exact : Invert(k)
  \/ Ready /\ Room /\ \E k \in Exact : Copy(k)
  \/ Ready /\ Room /\ \E k \in Exact : Normalized(k)
  \/ Ready /\ Room /\ \E k \in Exact, a \in SessionAngles :
                       FromAxisAngle(k, Vector(0, 0, 1), a)
  \/ Ready /\ \E k \in Exact : Magnitude(k)
  \/ Ready /\ \E k \in Exact : Iter(k)
  \/ Ready /\ \E k \in Exact, i \in IndexIn : GetItem(k, i)
  \/ Ready /\ \E k \in Exact, v \in SessionVecs : Rotate(k, v)
  \/ Ready /\ \E k \in Exact : Roll(k)
  \/ Ready /\ \E k \in Exact : Pitch(k)
  \/ Ready /\ \E k \in Exact : Yaw(k)
  \/ Ready /\ \E k \in Exact : Euler(k)

Spec == Init /\ [][Next]_vars

---------------------------------------------------------------------------
(* SpecAssoc: three quaternions a, b, c and the products (a*b)*c, a*(b*c). *)

InitAssoc ==
  /\ \E a \in TriIn, b \in TriIn, c \in TriIn :
       /\ heap = <<a, b, c>>
       /\ made = <<Made(a), Made(b), Made(c)>>
  /\ call = NoCall
  /\ ret = NoRet

NextAssoc ==
  \/ Len(heap) = 3 /\ Mul(1, Ref(2))
  \/ Len(heap) = 4 /\ Mul(4, Ref(3))
  \/ Len(heap) = 5 /\ Mul(2, Ref(3))
  \/ Len(heap) = 6 /\ Mul(1, Ref(6))

SpecAssoc == InitAssoc /\ [][NextAssoc]_vars

---------------------------------------------------------------------------
(* SpecPair: two quaternions a, b, then a*b, ~a, a*~a and ~a*a.            *)

InitPair ==
  /\ \E a \in QuatIn, b \in QuatIn :
       /\ heap = <<a, b>>
       /\ made = <<Made(a), Made(b)>>
  /\ call = NoCall
  /\ ret = NoRet

NextPair ==
  \/ Len(heap) = 2 /\ Mul(1, Ref(2))
  \/ Len(heap) = 3 /\ Invert(1)
  \/ Len(heap) = 4 /\ Mul(1, Ref(4))
  \/ Len(heap) = 5 /\ Mul(4, Ref(1))

SpecPair == InitPair /\ [][NextPair]_vars

---------------------------------------------------------------------------
(* SpecRot: one quaternion, from the constructor, identity() or            *)
(* rotation_of(source, dest), and the rotation of a vector by it.          *)

NextRot ==
  \/ Ready /\ heap = << >> /\ \E q \in QuatIn : New(q)
  \/ Ready /\ heap = << >> /\ Identity
  \/ Ready /\ heap = << >> /\ \E s \in PlainVecIn, d \in PlainVecIn : RotationOf(s, d)
  \/ Ready /\ Len(heap) = 1 /\ \E v \in VecIn : Rotate(1, v)

SpecRot == Init /\ [][NextRot]_vars

---------------------------------------------------------------------------
(* The properties.                                                         *)

Components(q) == <<q.x, q.y, q.z, q.w>>
IsCall(op) == call.op = op
Returned == ret.kind = "return"
ReturnedInstance == Returned /\ ret.val.type = "ref"

\* C1: rotation_of(v, v) returns the identity quaternion (0, 0, 0, 1) and
\* raises nothing, for every vector v.
RotationOfSelfIsIdentity ==
  (IsCall("rotation_of") /\ call.args[1] = call.args[2]) =>
    /\ ReturnedInstance
    /\ heap[ret.val.ref] = Quaternion(0, 0, 0, 1)

\* C2: for a non-zero v, rotation_of(v, -v) returns a quaternion with w = 0
\* whose vector part is non-zero and perpendicular to v.
RotationOfOppositeIsHalfTurn ==
  ( /\ IsCall("rotation_of")
    /\ call.args[2] = Vector(-call.args[1].x, -call.args[1].y, -call.args[1].z)
    /\ call.args[1] # Vector(0, 0, 0) ) =>
    /\ ReturnedInstance
    /\ LET q == heap[ret.val.ref]
           v == call.args[1]
       IN  /\ q.w = 0
           /\ <<q.x, q.y, q.z>> # <<0, 0, 0>>
           /\ q.x * v.x + q.y * v.y + q.z * v.z = 0

\* C3 as stated: q[i] is q.x, q.y, q.z, q.w for i = 0, 1, 2, 3 and an
\* IndexError for every other integer i, negative ones included.
GetItemOnlyZeroToThree ==
  (IsCall("__getitem__") /\ call.args[1].type = "int") =>
    LET i == call.args[1].val
        q == heap[call.self]
    IN  IF i \in 0..3 THEN ret = Return(Float(Components(q)[i + 1]))
        ELSE ret = Raise("IndexError")

\* C3 amended: q[i] is q.x, q.y, q.z, q.w for i = 0, 1, 2, 3, the same four
\* for i = -4, -3, -2, -1, and an IndexError for every integer i >= 4 and
\* every integer i < -4.
GetItemCountsFromTheEnd ==
  (IsCall("__getitem__") /\ call.args[1].type = "int") =>
    LET i == call.args[1].val
        q == heap[call.self]
    IN  IF i \in 0..3 THEN ret = Return(Float(Components(q)[i + 1]))
        ELSE IF i \in -4..-1 THEN ret = Return(Float(Components(q)[i + 5]))
        ELSE ret = Raise("IndexError")

GetItemWitness ==
  /\ IsCall("__getitem__")
  /\ call.args[1] = Int_(-1)
  /\ heap[call.self] = Quaternion(1, -1, 0, 2)
  /\ ret = Return(Float(2))

\* C4: the product is associative: for a*b, (a*b)*c, b*c and a*(b*c) as
\* they were computed, (a*b)*c = a*(b*c) in every component.
Associative ==
  \A p \in DOMAIN heap, q \in DOMAIN heap :
    ( /\ made[p].op = "__mul__" /\ made[q].op = "__mul__"
      /\ made[made[p].self].op = "__mul__"
      /\ made[made[q].args[1].ref].op = "__mul__"
      /\ made[made[p].self].self = made[q].self
      /\ made[made[p].self].args[1].ref = made[made[q].args[1].ref].self
      /\ made[p].args[1].ref = made[made[q].args[1].ref].args[1].ref )
    => Components(heap[p]) = Components(heap[q])

\* (a*b)*c and a*(b*c) have been computed for a and b that do not commute.
AssociativeWitness ==
  /\ Len(heap) = 7
  /\ made[5] = Call("__mul__", 4, <<Ref(3)>>)
  /\ made[7] = Call("__mul__", 1, <<Ref(6)>>)
  /\ heap[4] # __mul__(heap[2], heap[1]).val
  /\ heap[3].x # 0 /\ heap[3].w # 0
  /\ heap[5] = heap[7]

\* C5: q * ~q and ~q * q have the vector part (0, 0, 0) and the scalar part
\* q.x^2 + q.y^2 + q.z^2 + q.w^2.
ConjugateProduct ==
  \A p \in DOMAIN heap :
    made[p].op = "__mul__" =>
      LET l == made[p].self
          r == made[p].args[1].ref
          q == IF made[r] = Call("__invert__", l, << >>) THEN l
               ELSE IF made[l] = Call("__invert__", r, << >>) THEN r
               ELSE 0
      IN  q # 0 =>
            Components(heap[p]) =
              <<0, 0, 0, heap[q].x * heap[q].x + heap[q].y * heap[q].y
                         + heap[q].z * heap[q].z + heap[q].w * heap[q].w>>

\* Both products have been computed for a q with no zero component.
ConjugateProductWitness ==
  /\ Len(heap) = 6
  /\ made[4] = Call("__invert__", 1, << >>)
  /\ made[5] = Call("__mul__", 1, <<Ref(4)>>)
  /\ made[6] = Call("__mul__", 4, <<Ref(1)>>)
  /\ \A i \in 1..4 : Components(heap[1])[i] # 0
  /\ heap[5] = Quaternion(0, 0, 0, 4)
  /\ heap[6] = heap[5]

\* C6: identity().rotate(v) is a value of the class of v with the three
\* components of v.
IdentityRotates ==
  (IsCall("rotate") /\ made[call.self].op = "identity") =>
    /\ Returned
    /\ ret.val.type = call.args[1].type
    /\ <<ret.val.x, ret.val.y, ret.val.z>>
         = <<call.args[1].x, call.args[1].y, call.args[1].z>>

IdentityRotatesWitness ==
  /\ IsCall("rotate")
  /\ made[call.self].op = "identity"
  /\ call.args[1] = Construct3("Vec3", 1, -1, 0)
  /\ ret = Return(Construct3("Vec3", 1, -1, 0))

\* C7: a call leaves the fields of every instance there was as they were;
\* an instance it returns is a new one, none of those there were; and what
\* copy() returns has the field values of its receiver.
Immutable ==
  [][ /\ Len(heap') >= Len(heap)
      /\ \A k \in DOMAIN heap : heap'[k] = heap[k]
      /\ (ret'.kind = "return" /\ ret'.val.type = "ref") =>
           /\ ret'.val.ref \notin DOMAIN heap
           /\ ret'.val.ref \in DOMAIN heap'
      /\ call'.op \in {"__mul__", "__invert__", "copy", "normalized"} =>
           \/ ret'.kind = "raise"
           \/ ret'.val.type = "ref" /\ ret'.val.ref # call'.self
      /\ call'.op = "copy" =>
           /\ ret'.kind = "return" /\ ret'.val.type = "ref"
           /\ Components(heap'[ret'.val.ref]) = Components(heap[call'.self]) ]_vars

\* A product of two different instances has been returned as a third.
ImmutableWitness ==
  /\ IsCall("__mul__")
  /\ ReturnedInstance
  /\ call.self = 2 /\ call.args[1] = Ref(1) /\ ret.val.ref = 3
  /\ heap[1] = Quaternion(1, -1, 0, 2)
  /\ heap[2] = Quaternion(-1, 1, 0, 2)
  /\ made[2] = Call("__invert__", 1, << >>)

\* C8: a product by a right-hand operand that is no Quaternion raises
\* TypeError and constructs no instance; a product by a Quaternion raises
\* nothing and returns the instance it constructed.
MulOperandCheck ==
  IsCall("__mul__") =>
    IF call.args[1].type = "ref"
    THEN /\ ReturnedInstance
         /\ made[ret.val.ref].op = "__mul__"
         /\ made[ret.val.ref].self = call.self
         /\ made[ret.val.ref].args = call.args
    ELSE /\ ret = Raise("TypeError")
         /\ \A k \in DOMAIN made :
              made[k].op = "__mul__" => made[k].args[1].type = "ref"

MulOperandCheckWitness ==
  /\ IsCall("__mul__")
  /\ call.args[1] = Vector(1, 0, 0)
  /\ ret = Raise("TypeError")
  /\ Len(heap) = 2

SquaredMagnitude(q) == magnitude(q).val.val.arg

NormMultiplicative ==
  \A p \in DOMAIN heap :
    made[p].op = "__mul__" =>
      SquaredMagnitude(heap[p]) =
        SquaredMagnitude(heap[made[p].self])
          * SquaredMagnitude(heap[made[p].args[1].ref])

NormMultiplicativeWitness ==
  /\ Len(heap) >= 3
  /\ made[3] = Call("__mul__", 1, <<Ref(2)>>)
  /\ SquaredMagnitude(heap[1]) = 4
  /\ SquaredMagnitude(heap[2]) = 3
  /\ SquaredMagnitude(heap[3]) = 12

=============================================================================
